---- MODULE Spec2Model ----
(***************************************************************************)
(* A model of intake_erddap.cache.CacheStore: a file-backed, time-expiring *)
(* cache of HTTP responses.  One store, one caller; every public method of *)
(* the store is one atomic action.  The origin's answer to a request, the  *)
(* clock and writes to the cache directory made from outside the store     *)
(* (os.utime, pre-seeded files) are the environment.                       *)
(***************************************************************************)
EXTENDS Integers, Sequences, FiniteSets, TLC

VARIABLES cache_period, origin, now, fs, ncalls, noutside, last,
          dir, maint, cat, procs, parser

vars == <<cache_period, origin, now, fs, ncalls, noutside, last, dir, maint, cat,
          procs, parser>>

\* the calls in progress of concurrent callers, and the state of the loop of
\* parse_erddap_tabledap_response: untouched by the calls made one at a time
extra == <<procs, parser>>

\* what the calls of read_csv, read_json and cache_response leave alone: the
\* directories, the record of the last maintenance call and of the last
\* catalog load
aux == <<dir, maint, cat, extra>>

----------------------------------------------------------------------------
(* Bounds *)

MaxTime == 2
MaxCalls == 2
MaxOutside == 1
MaxRows == 2
MaxGets == 2

----------------------------------------------------------------------------
(* Inputs *)

URLs == {"u1", "u2"}

\* http_kwargs handed to read_csv / read_json by the caller
HttpKwargs == {"none", "timeout"}

\* pandas_kwargs handed to read_csv by the caller: none, or names=[...]
PandasKwargs == {"none", "names"}

\* the cache_period argument of CacheStore.__init__: <<>> is None, <<p>> is p
None == <<>>
PeriodArgs == {None, <<-1>>, <<0>>, <<1>>}

\* response bodies of the origin, as byte strings
Bodies == {<<1, 7>>, <<2, 8>>}
ErrorPage == <<0>>

\* What the origin does with one GET: the transport raises, or a response
\* comes back with a status and a body.
Responses ==
  {[get_ok |-> FALSE, status |-> 0, content |-> <<>>]}
    \cup {[get_ok |-> TRUE, status |-> 200, content |-> b] : b \in Bodies}
    \cup {[get_ok |-> TRUE, status |-> s, content |-> ErrorPage] : s \in {404, 500}}

\* the origin's answers while it is up, and while it is down
Answers(state) ==
  IF state = "down" THEN {r \in Responses : r.get_ok /\ r.status >= 400} ELSE Responses

\* the content of a cache file written from outside the store
SeedBody == <<3, 9>>

\* ages an outside os.utime gives a cache file
UtimeAges == {500, 501}

----------------------------------------------------------------------------
(* The cache directory *)

DefaultPeriod == 500

CacheStore_init(cache_period_arg) ==
  IF cache_period_arg # None THEN cache_period_arg[1] ELSE DefaultPeriod

hash_url(url) == <<"sha256", url>>

cache_file_flat(url) == [parent |-> "cache_dir", name |-> <<"sha256">>, suffix |-> ".gz"]

\* CacheStore.cache_file
cache_file(url) == [parent |-> "cache_dir", name |-> hash_url(url), suffix |-> ".gz"]

\* the URLs of the run: those whose cache file the directory map follows
Asked == {u \in URLs : cache_file(u) \in DOMAIN fs}

NoFile == [exists |-> FALSE, content |-> <<>>, mtime |-> 0]

File(content, mtime) == [exists |-> TRUE, content |-> content, mtime |-> mtime]

gzip_open_wb_dir(files, pth, t) == [p \in DOMAIN files |-> File(<<>>, t)]

gzip_open_ab(files, pth, t) ==
  [files EXCEPT ![pth] = File(IF files[pth].exists THEN files[pth].content ELSE <<>>, t)]

\* gzip.open(filename, "wb"): the file is created or truncated
gzip_open_wb(files, pth, t) == [files EXCEPT ![pth] = File(<<>>, t)]

gzip_write_nothing(files, pth, content, t) == files

\* f.write(content) on the open file
gzip_write(files, pth, content, t) ==
  [files EXCEPT ![pth] = File(files[pth].content \o content, t)]

----------------------------------------------------------------------------
(* Results of a call *)

NoExc == [raised |-> FALSE, exc |-> "none", code |-> 0]
Exc(name, code) == [raised |-> TRUE, exc |-> name, code |-> code]

NoValue == [fmt |-> "none", head |-> 0, rest |-> <<>>]

raise_for_status_never(resp) == FALSE

\* resp.raise_for_status()
raise_for_status(resp) == resp.status >= 400

\* pd.read_csv(f, **pandas_kwargs) on the bytes of a file or of a response: a
\* header line and rows; with names= every line is a row, and on no input at
\* all the parser has no columns to parse unless names= brings them
pd_read_csv(bytes, pandas_kwargs) ==
  IF pandas_kwargs = "names"
  THEN [err |-> NoExc, value |-> [fmt |-> "csv", head |-> 0, rest |-> bytes]]
  ELSE IF bytes = <<>>
  THEN [err |-> Exc("EmptyDataError", 0), value |-> NoValue]
  ELSE [err |-> NoExc, value |-> [fmt |-> "csv", head |-> Head(bytes), rest |-> Tail(bytes)]]

\* json.load on the bytes of a file; resp.json() on the bytes of a response
json_load(bytes) ==
  IF bytes = <<>>
  THEN [err |-> Exc("JSONDecodeError", 0), value |-> NoValue]
  ELSE [err |-> NoExc, value |-> [fmt |-> "json", head |-> Head(bytes), rest |-> Tail(bytes)]]

fetch_error_swallowed(resp) == NoExc

\* what http_client.get and raise_for_status raise on a response
fetch_error(resp) ==
  IF ~resp.get_ok THEN Exc("ConnectionError", 0)
  ELSE IF raise_for_status(resp) THEN Exc("HTTPError", resp.status)
  ELSE NoExc

----------------------------------------------------------------------------
(* CacheStore methods as functions of the directory *)

cache_enabled_ge(period) == period >= 0

\* CacheStore.cache_enabled
cache_enabled(period) == period > 0

\* The outcome of a method: the directory afterwards, the http_kwargs of each
\* http_client.get made, the number of URLs handed to pandas to retrieve by
\* itself, the exception raised and the value returned.
Outcome(files, gets, direct, err, value) ==
  [fs |-> files, gets |-> gets, direct |-> direct, err |-> err, value |-> value]

cache_response_no_kwargs(files, url, kwargs, resp, t) ==
  LET filename == cache_file(url)
      opened == gzip_open_wb(files, filename, t)
      err == fetch_error(resp)
  IN IF err.raised
     THEN Outcome(opened, <<"none">>, 0, err, NoValue)
     ELSE Outcome(gzip_write(opened, filename, resp.content, t), <<"none">>, 0, NoExc, NoValue)

cache_response_unlink_on_error(files, url, kwargs, resp, t) ==
  LET filename == cache_file(url)
      opened == gzip_open_wb(files, filename, t)
      err == fetch_error(resp)
  IN IF err.raised
     THEN Outcome([files EXCEPT ![filename] = NoFile], <<kwargs>>, 0, err, NoValue)
     ELSE Outcome(gzip_write(opened, filename, resp.content, t), <<kwargs>>, 0, NoExc, NoValue)

cache_response_keep_existing(files, url, kwargs, resp, t) ==
  LET filename == cache_file(url)
      opened == gzip_open_wb(files, filename, t)
      err == fetch_error(resp)
  IN IF files[filename].exists
     THEN Outcome(files, <<>>, 0, NoExc, NoValue)
     ELSE IF err.raised
     THEN Outcome(opened, <<kwargs>>, 0, err, NoValue)
     ELSE Outcome(gzip_write(opened, filename, resp.content, t), <<kwargs>>, 0, NoExc, NoValue)

\* CacheStore.cache_response: open the file, GET, check the status, write
cache_response(files, url, kwargs, resp, t) ==
  LET filename == cache_file(url)
      opened == gzip_open_wb(files, filename, t)
      err == fetch_error(resp)
  IN IF err.raised
     THEN Outcome(opened, <<kwargs>>, 0, err, NoValue)
     ELSE Outcome(gzip_write(opened, filename, resp.content, t), <<kwargs>>, 0, NoExc, NoValue)

is_stale_le(mtime, t, period) == mtime <= t - period

\* pth.stat().st_mtime < allowed_mtime
is_stale(mtime, t, period) == mtime < t - period

refresh_touch(files, url, kwargs, resp, t, period) ==
  LET pth == cache_file(url)
  IN IF files[pth].exists
     THEN IF is_stale(files[pth].mtime, t, period)
          THEN cache_response(files, url, kwargs, resp, t)
          ELSE Outcome([files EXCEPT ![pth].mtime = t], <<>>, 0, NoExc, NoValue)
     ELSE cache_response(files, url, kwargs, resp, t)

refresh_always(files, url, kwargs, resp, t, period) ==
  cache_response(files, url, kwargs, resp, t)

\* the part of read_csv and read_json that decides on a refetch
refresh(files, url, kwargs, resp, t, period) ==
  LET pth == cache_file(url)
  IN IF files[pth].exists
     THEN IF is_stale(files[pth].mtime, t, period)
          THEN cache_response(files, url, kwargs, resp, t)
          ELSE Outcome(files, <<>>, 0, NoExc, NoValue)
     ELSE cache_response(files, url, kwargs, resp, t)

\* CacheStore.read_csv
read_csv(files, url, pandas_kwargs, kwargs, resp, t, period) ==
  IF ~cache_enabled(period)
  THEN \* pd.read_csv(url, **pandas_kwargs): pandas retrieves the URL itself
       LET err == fetch_error(resp)
           parsed == pd_read_csv(resp.content, pandas_kwargs)
       IN IF err.raised
          THEN Outcome(files, <<>>, 1, err, NoValue)
          ELSE Outcome(files, <<>>, 1, parsed.err, parsed.value)
  ELSE LET r == refresh(files, url, kwargs, resp, t, period)
           parsed == pd_read_csv(r.fs[cache_file(url)].content, pandas_kwargs)
       IN IF r.err.raised
          THEN r
          ELSE Outcome(r.fs, r.gets, 0, parsed.err, parsed.value)

\* CacheStore.read_json
read_json(files, url, kwargs, resp, t, period) ==
  IF ~cache_enabled(period)
  THEN LET err == fetch_error(resp)
           parsed == json_load(resp.content)
       IN IF err.raised
          THEN Outcome(files, <<kwargs>>, 0, err, NoValue)
          ELSE Outcome(files, <<kwargs>>, 0, parsed.err, parsed.value)
  ELSE LET r == refresh(files, url, kwargs, resp, t, period)
           parsed == json_load(r.fs[cache_file(url)].content)
       IN IF r.err.raised
          THEN r
          ELSE Outcome(r.fs, r.gets, 0, parsed.err, parsed.value)

----------------------------------------------------------------------------
(* Construction and maintenance *)

\* files in the cache directory that are not cache files of a URL
OtherPaths ==
  {[parent |-> "cache_dir", name |-> <<"notes">>, suffix |-> ".txt"],
   [parent |-> "cache_dir", name |-> <<"backup">>, suffix |-> ".gz"]}

\* the cache directory with its parent ("full"), the parent alone ("parent"),
\* or neither ("none")
DirStates == {"full", "parent", "none"}

mkdir_no_parents(d) == IF d = "parent" THEN "full" ELSE d

\* self.cache_dir.mkdir(parents=True, exist_ok=True)
mkdir(d) == "full"

\* CacheStore.__init__: create the cache directory when it does not exist
CacheStore_mkdir(d) == IF d # "full" THEN mkdir(d) ELSE d

glob_all(files) == {p \in DOMAIN files : files[p].exists}

\* self.cache_dir.glob("*.gz")
glob_gz(files) == {p \in DOMAIN files : files[p].exists /\ p.suffix = ".gz"}

\* cache_file.unlink() for each file of a set
unlink(files, paths) ==
  [p \in DOMAIN files |-> IF p \in paths THEN NoFile ELSE files[p]]

\* CacheStore._clear_cache
clear_cache_all(files) == unlink(files, glob_gz(files))

is_old_lt(mtime, cutoff) == mtime < cutoff

\* mtime <= cutoff
is_old(mtime, cutoff) == mtime <= cutoff

clear_cache_mtime_stale(files, age, t) ==
  unlink(files, {p \in glob_gz(files) : is_stale(files[p].mtime, t, age)})

\* CacheStore._clear_cache_mtime
clear_cache_mtime(files, age, t) ==
  LET cutoff == t - age
  IN unlink(files, {p \in glob_gz(files) : is_old(files[p].mtime, cutoff)})

clear_cache_mkdir(d) == "full"

\* CacheStore.clear_cache leaves the directories as they are
clear_cache_dir(d) == d

\* CacheStore.clear_cache
clear_cache(d, files, mtime, t) ==
  IF d = "full"
  THEN IF mtime = None
       THEN clear_cache_all(files)
       ELSE clear_cache_mtime(files, mtime[1], t)
  ELSE files

NoMaint ==
  [op |-> "none", arg |-> None, url |-> "u1", path |-> cache_file("u1"), time |-> 0,
   pre_dir |-> "full", post_dir |-> "full", pre |-> <<>>, post |-> <<>>,
   err |-> NoExc]

\* the record of a construction, a clear_cache or a cache_file call: its
\* argument, and the directories and files before and after
Maint(op, arg, url, d, files, err) ==
  [op |-> op, arg |-> arg, url |-> url, path |-> cache_file(url), time |-> now,
   pre_dir |-> dir, post_dir |-> d, pre |-> fs, post |-> files, err |-> err]

\* no catalog has been constructed
NoLoad == [op |-> "none"]

\* no concurrent callers
NoProcs == <<>>

\* no table response is being parsed
NoParse == [pc |-> "none"]

----------------------------------------------------------------------------
(* The catalog: ERDDAPCatalogReader and its search results *)

\* the search URLs get_search_urls can return, in its order
SearchURLs == {"s1", "s2", "s3", "s4"}

SearchLists == {<<"s1">>, <<"s1", "s2">>, <<"s1", "s2", "s3", "s4">>}

QueryTypes == {"union", "intersection", "other"}

\* the cache_period argument of the catalog: None, or a number of seconds
CatalogPeriods == {None, <<0>>, <<1>>, <<500>>}

\* the CSV the server gives for a search that matches: a header row, then one
\* row per dataset, here its dataset ID
SearchBody(url) ==
  IF url = "s1" THEN <<1, 10, 11>>
  ELSE IF url = "s2" THEN <<1, 11, 12>>
  ELSE IF url = "s3" THEN <<1, 11>>
  ELSE <<1, 12, 11>>

\* the server's answer to a search, by the status it answers with
SearchResponse(url, status) ==
  [get_ok |-> TRUE, status |-> status,
   content |-> IF status = 200 THEN SearchBody(url) ELSE ErrorPage]

\* the servers: the first two searches may match, match nothing (404) or
\* fail (500)
Servers ==
  {[url \in SearchURLs |->
      SearchResponse(url, IF url = "s1" THEN a ELSE IF url = "s2" THEN b ELSE 200)] :
    a \in {200, 404, 500}, b \in {200, 404, 500}}

\* the columns of an ERDDAP search result; a label is a name and the
\* suffixes merge has given it
ErddapColumns == <<<<"Title">>, <<"Dataset ID">>>>

NoFrame == [columns |-> <<>>, rows |-> <<>>]

\* the frame pandas makes of a parsed search CSV
DataFrame(value) == [columns |-> ErddapColumns, rows |-> value.rest]

\* pd.DataFrame({"datasetID": []})
EmptyFrame == [columns |-> <<<<"datasetID">>>>, rows |-> <<>>]

\* df.rename(columns={"Dataset ID": "datasetID"})
rename(df) ==
  [df EXCEPT !.columns =
     [i \in DOMAIN df.columns |->
        IF df.columns[i] = <<"Dataset ID">> THEN <<"datasetID">> ELSE df.columns[i]]]

Range(s) == {s[i] : i \in DOMAIN s}

\* the values that occur again after their first occurrence
duplicated(s) == {s[j] : j \in {k \in DOMAIN s : \E i \in 1..(k - 1) : s[i] = s[k]}}

RECURSIVE keep_first(_)
\* the sequence without the later occurrences of a value
keep_first(s) ==
  IF s = <<>> THEN <<>>
  ELSE LET init == keep_first(SubSeq(s, 1, Len(s) - 1))
           x == s[Len(s)]
       IN IF x \in Range(init) THEN init ELSE Append(init, x)

RECURSIVE flatten(_)
flatten(ss) == IF ss = <<>> THEN <<>> ELSE Head(ss) \o flatten(Tail(ss))

\* pd.concat(frames)
concat(frames) ==
  [columns |-> keep_first(flatten([i \in DOMAIN frames |-> frames[i].columns])),
   rows |-> flatten([i \in DOMAIN frames |-> frames[i].rows])]

\* result.drop_duplicates("datasetID")
drop_duplicates(df) == [df EXCEPT !.rows = keep_first(df.rows)]

\* the labels of one side of a merge: an overlapping label gets the suffix
merge_labels(columns, to_rename, suffix) ==
  [i \in DOMAIN columns |->
     IF columns[i] \in to_rename THEN Append(columns[i], suffix) ELSE columns[i]]

RECURSIVE merge_rows(_, _)
\* the rows of an inner merge on the key: one per pair of rows with equal key
merge_rows(left, right) ==
  IF left = <<>> THEN <<>>
  ELSE LET Same(x) == x = Head(left)
       IN SelectSeq(right, Same) \o merge_rows(Tail(left), right)

\* result.merge(frame, how="inner", on="datasetID"). When the suffixes give
\* two columns one label, a pandas that enforces unique labels (strict)
\* raises MergeError and an older one only warns.
merge(left, right, strict) ==
  LET key == <<"datasetID">>
      NotKey(c) == c # key
      to_rename == (Range(left.columns) \cap Range(right.columns)) \ {key}
      llabels == merge_labels(left.columns, to_rename, "_x")
      rlabels == merge_labels(right.columns, to_rename, "_y")
      dups == (duplicated(llabels) \ duplicated(left.columns))
                \cup (duplicated(rlabels) \ duplicated(right.columns))
  IN IF strict /\ dups # {}
     THEN [err |-> Exc("MergeError", 0), value |-> NoFrame]
     ELSE [err |-> NoExc,
           value |-> [columns |-> llabels \o SelectSeq(rlabels, NotKey),
                      rows |-> merge_rows(left.rows, right.rows)]]

RECURSIVE merge_frames(_, _, _)
\* the rest of the intersection loop after one merge
merge_next(m, frames, strict) ==
  IF m.err.raised THEN m ELSE merge_frames(m.value, frames, strict)

\* the loop of _load_df for "intersection": result = result.merge(frame)
merge_frames(result, frames, strict) ==
  IF frames = <<>> THEN [err |-> NoExc, value |-> result]
  ELSE merge_next(merge(result, Head(frames), strict), Tail(frames), strict)

\* except HTTPError as e: if e.code == 404 (urllib's and requests')
is_404(err) == err.raised /\ err.exc = "HTTPError" /\ err.code = 404

\* the URL, when the read outcome r shows that the server was asked for it
requested_url(url, r) == IF r.gets # <<>> \/ r.direct > 0 THEN <<url>> ELSE <<>>

\* the frame one iteration appends, from the outcome r of its read_csv
read_frame(r) == rename(IF r.err.raised THEN EmptyFrame ELSE DataFrame(r.value))

\* the outcome of the loop from the outcome r of one iteration and the
\* outcome of the iterations after it
append_frame(url, r, rest) ==
  [fs |-> rest.fs, requested |-> requested_url(url, r) \o rest.requested,
   frames |-> <<read_frame(r)>> \o rest.frames, err |-> rest.err]

RECURSIVE read_frames(_, _, _, _, _)
\* one iteration of the loop, r the outcome of its read_csv: an exception
\* other than a 404 ends the loop
read_next(url, r, urls, server, t, period) ==
  IF r.err.raised /\ ~is_404(r.err)
  THEN [fs |-> r.fs, requested |-> requested_url(url, r), frames |-> <<>>, err |-> r.err]
  ELSE append_frame(url, r, read_frames(r.fs, urls, server, t, period))

\* the loop of _load_df over the search URLs: the directory afterwards, the
\* URLs the server was asked for, the frames collected and the exception
\* that ended the loop
read_frames(files, urls, server, t, period) ==
  IF urls = <<>>
  THEN [fs |-> files, requested |-> <<>>, frames |-> <<>>, err |-> NoExc]
  ELSE read_next(Head(urls),
                 read_csv(files, Head(urls), "none", "none", server[Head(urls)], t, period),
                 Tail(urls), server, t, period)

\* the second half of _load_df: the frames combined by the query type
combine(frames, query_type, strict) ==
  IF query_type = "union"
  THEN [err |-> NoExc, value |-> drop_duplicates(concat(frames))]
  ELSE IF query_type = "intersection"
  THEN merge_frames(Head(frames), Tail(frames), strict)
  ELSE [err |-> Exc("ValueError", 0), value |-> NoFrame]

\* what a load did and gave: rd the outcome of the loop, combined the outcome
\* of combining its frames
loaded(rd, combined) ==
  [fs |-> rd.fs, requested |-> rd.requested, frames |-> rd.frames,
   err |-> IF rd.err.raised THEN rd.err ELSE combined.err,
   result |-> IF rd.err.raised THEN NoFrame ELSE combined.value]

\* the combination for the outcome rd of the loop
load_frames(rd, query_type, strict) ==
  loaded(rd, combine(rd.frames, query_type, strict))

\* ERDDAPCatalogReader._load_df
load_df(files, urls, query_type, server, strict, t, period) ==
  load_frames(read_frames(files, urls, server, t, period), query_type, strict)

\* a catalog on a server, and its last load: its search URLs and query type,
\* whether the installed pandas enforces unique labels, and what the last
\* _load_df was given, did and gave
Catalog(server, strict, urls, query_type) ==
  [op |-> "init", server |-> server, strict |-> strict,
   urls |-> urls, query_type |-> query_type, arg |-> <<500>>,
   time |-> 0, period |-> 0, pre |-> <<>>, requested |-> <<>>, frames |-> <<>>,
   err |-> NoExc, result |-> NoFrame]

\* a catalog just constructed with cache_period=arg at time t over the
\* directory files
Constructed(c, arg, t, files) ==
  [c EXCEPT !.arg = arg, !.time = t, !.period = CacheStore_init(arg), !.pre = files]

----------------------------------------------------------------------------
(* State machine *)

\* no request reached the origin
NoResp == [get_ok |-> FALSE, status |-> -1, content |-> <<>>]

NoCall ==
  [op |-> "none", url |-> "u1", pandas_kwargs |-> "none", kwargs |-> "none",
   resp |-> NoResp,
   time |-> 0, pre |-> NoFile, post |-> NoFile,
   gets |-> <<>>, direct |-> 0, err |-> NoExc, value |-> NoValue]

\* the record of a call: its arguments, the origin's answer to its request if
\* it made one, the cache file of its URL before and after, and its outcome
Call(op, url, pandas_kwargs, kwargs, resp, r) ==
  [op |-> op, url |-> url, pandas_kwargs |-> pandas_kwargs, kwargs |-> kwargs,
   resp |-> IF r.gets = <<>> /\ r.direct = 0 THEN NoResp ELSE resp, time |-> now,
   pre |-> fs[cache_file(url)], post |-> r.fs[cache_file(url)],
   gets |-> r.gets, direct |-> r.direct, err |-> r.err, value |-> r.value]

Init ==
  /\ cache_period \in {CacheStore_init(a) : a \in PeriodArgs}
  /\ origin \in {"up", "down"}
  /\ now = 0
  /\ fs = [p \in {cache_file("u1")} |-> NoFile]
  /\ ncalls = 0
  /\ noutside = 0
  /\ last = NoCall
  /\ dir = "full"
  /\ maint = NoMaint
  /\ cat = NoLoad
  /\ procs = NoProcs
  /\ parser = NoParse

Apply(op, url, pandas_kwargs, kwargs, resp, r) ==
  /\ ncalls < MaxCalls
  /\ fs' = r.fs
  /\ last' = Call(op, url, pandas_kwargs, kwargs, resp, r)
  /\ ncalls' = ncalls + 1
  /\ UNCHANGED <<cache_period, origin, now, noutside, aux>>

ReadCsv ==
  \E url \in Asked, pandas_kwargs \in PandasKwargs, kwargs \in HttpKwargs,
     resp \in Answers(origin) :
    Apply("read_csv", url, pandas_kwargs, kwargs, resp,
          read_csv(fs, url, pandas_kwargs, kwargs, resp, now, cache_period))

ReadJson ==
  \E url \in Asked, kwargs \in HttpKwargs, resp \in Answers(origin) :
    Apply("read_json", url, "none", kwargs, resp,
          read_json(fs, url, kwargs, resp, now, cache_period))

CacheResponse ==
  \E url \in Asked, kwargs \in HttpKwargs, resp \in Answers(origin) :
    Apply("cache_response", url, "none", kwargs, resp,
          cache_response(fs, url, kwargs, resp, now))

\* time.time() advances between calls
Tick ==
  /\ now < MaxTime
  /\ now' = now + 1
  /\ UNCHANGED <<cache_period, origin, fs, ncalls, noutside, last, aux>>

\* a cache file written from outside the store
SeedFile ==
  \E url \in Asked :
    /\ noutside < MaxOutside
    /\ fs' = [fs EXCEPT ![cache_file(url)] = File(SeedBody, now)]
    /\ noutside' = noutside + 1
    /\ UNCHANGED <<cache_period, origin, now, ncalls, last, aux>>

\* os.utime on a cache file from outside the store
Utime ==
  \E url \in Asked, age \in UtimeAges :
    /\ noutside < MaxOutside
    /\ fs[cache_file(url)].exists
    /\ fs' = [fs EXCEPT ![cache_file(url)].mtime = now - age]
    /\ noutside' = noutside + 1
    /\ UNCHANGED <<cache_period, origin, now, ncalls, last, aux>>

Next == ReadCsv \/ ReadJson \/ CacheResponse \/ Tick \/ SeedFile \/ Utime

Spec == Init /\ [][Next]_vars

\* the calls on a store whose directory holds the cache files of two URLs,
\* with caching on or off
InitFrame ==
  /\ cache_period \in {CacheStore_init(<<0>>), CacheStore_init(<<1>>)}
  /\ origin = "up"
  /\ now = 0
  /\ fs = [p \in {cache_file(url) : url \in URLs} |-> NoFile]
  /\ ncalls = 0
  /\ noutside = 0
  /\ last = NoCall
  /\ dir = "full"
  /\ maint = NoMaint
  /\ cat = NoLoad
  /\ procs = NoProcs
  /\ parser = NoParse

\* only the store writes the directory
NextFrame == ReadCsv \/ ReadJson \/ CacheResponse \/ Tick

SpecFrame == InitFrame /\ [][NextFrame]_vars

----------------------------------------------------------------------------
(* Construction and maintenance on a directory that earlier runs filled *)

\* the max_age argument of clear_cache: <<>> is None
ClearArgs == {None, <<0>>, <<1>>, <<2>>}

\* what an earlier run may have left at a path
Leftovers == {NoFile, File(SeedBody, 0), File(SeedBody, -1)}

MaintPaths == {cache_file(u) : u \in URLs} \cup OtherPaths

InitMaint ==
  /\ cache_period \in {CacheStore_init(a) : a \in PeriodArgs}
  /\ origin = "up"
  /\ now = 0
  /\ fs \in [MaintPaths -> Leftovers]
  /\ ncalls = 0
  /\ noutside = 0
  /\ last = NoCall
  /\ dir = "full"
  /\ maint = NoMaint
  /\ cat = NoLoad
  /\ procs = NoProcs
  /\ parser = NoParse

\* CacheStore(cache_dir, cache_period=arg) on the same directory
Construct ==
  \E arg \in PeriodArgs :
    /\ ncalls < MaxCalls
    /\ cache_period' = CacheStore_init(arg)
    /\ dir' = CacheStore_mkdir(dir)
    /\ UNCHANGED <<origin, now, fs, noutside, last, cat, extra>>
    /\ maint' = Maint("init", arg, "u1", dir', fs',
                      IF dir' = "full" THEN NoExc ELSE Exc("FileNotFoundError", 0))
    /\ ncalls' = ncalls + 1

\* store.clear_cache(arg)
ClearCache ==
  \E arg \in ClearArgs :
    /\ ncalls < MaxCalls
    /\ fs' = clear_cache(dir, fs, arg, now)
    /\ dir' = clear_cache_dir(dir)
    /\ maint' = Maint("clear_cache", arg, "u1", dir', fs', NoExc)
    /\ ncalls' = ncalls + 1
    /\ UNCHANGED <<cache_period, origin, now, noutside, last, cat, extra>>

\* store.cache_file(url)
CacheFile ==
  \E url \in URLs :
    /\ ncalls < MaxCalls
    /\ UNCHANGED <<cache_period, origin, now, fs, noutside, last, dir, cat, extra>>
    /\ maint' = Maint("cache_file", None, url, dir', fs', NoExc)
    /\ ncalls' = ncalls + 1

\* the cache directory removed from outside, alone or with its parent
RemoveDir ==
  \E d \in {"parent", "none"} :
    /\ noutside < MaxOutside
    /\ dir = "full"
    /\ dir' = d
    /\ fs' = [p \in DOMAIN fs |-> NoFile]
    /\ noutside' = noutside + 1
    /\ UNCHANGED <<cache_period, origin, now, ncalls, last, maint, cat, extra>>

NextMaint == Construct \/ ClearCache \/ CacheFile \/ RemoveDir \/ Tick

SpecMaint == InitMaint /\ [][NextMaint]_vars

----------------------------------------------------------------------------
(* The catalog's state machine: catalogs constructed on one cache directory
   and loading their search results from one server *)

\* a default catalog, just constructed on an empty cache directory
InitCat ==
  /\ cache_period = CacheStore_init(<<500>>)
  /\ origin = "up"
  /\ now = 0
  /\ fs = [p \in {cache_file(url) : url \in SearchURLs} |-> NoFile]
  /\ ncalls = 0
  /\ noutside = 0
  /\ last = NoCall
  /\ dir = "full"
  /\ maint = NoMaint
  /\ procs = NoProcs
  /\ parser = NoParse
  /\ cat \in {Catalog(server, strict, <<"s1">>, "union") :
                server \in Servers, strict \in BOOLEAN}

\* ERDDAPCatalogReader.__init__: a new catalog on the same cache directory
\* constructs its CacheStore and clears the cache of files older than its
\* cache period
CatalogInit ==
  \E arg \in CatalogPeriods, urls \in SearchLists, query_type \in QueryTypes :
    /\ cache_period' = CacheStore_init(arg)
    /\ fs' = clear_cache(dir, fs, arg, now)
    /\ cat' = Constructed(Catalog(cat.server, cat.strict, urls, query_type), arg, now, fs)
    /\ UNCHANGED <<origin, now, ncalls, noutside, last, dir, maint, extra>>

\* the catalog loads its search results
LoadDf ==
  \E r \in {load_df(fs, cat.urls, cat.query_type, cat.server, cat.strict, now, cache_period)} :
    /\ ncalls < MaxCalls
    /\ fs' = r.fs
    /\ cat' = [cat EXCEPT !.op = "load", !.time = now, !.period = cache_period,
                          !.pre = fs, !.requested = r.requested,
                          !.frames = r.frames, !.err = r.err, !.result = r.result]
    /\ ncalls' = ncalls + 1
    /\ UNCHANGED <<cache_period, origin, now, noutside, last, dir, maint, extra>>

NextCat == CatalogInit \/ LoadDf \/ Tick

SpecCat == InitCat /\ [][NextCat]_vars

----------------------------------------------------------------------------
(* utils.parse_erddap_tabledap_response: the rows of an ERDDAP table response
   turned into a mapping by datasetID, one step per row of its loop *)

\* data["table"]["columnNames"] and data["table"]["columnTypes"]
ColumnNames == <<"datasetID", "silverhand", "alt">>
ColumnTypes == <<"String", "long", "double">>

DatasetIds == {"valid", "invalid"}

\* what a cell of a numeric column can hold: a number, null, a string that
\* is no number, an object that is neither
Cells == {"1", "null", "text", "object"}

TableRows == {<<id, c, d>> : id \in DatasetIds, c \in Cells, d \in Cells}

\* data["table"]["rows"]
RowLists == UNION {[1..n -> TableRows] : n \in 0..MaxRows}

\* what parse_row does with one cell: a value for the entry, the return of
\* None, or the exception of float() or int()
convert(dtype, cell) ==
  IF dtype \in {"double", "float"}
  THEN IF cell = "null" THEN [kind |-> "value", value |-> "nan"]
       ELSE IF cell = "text" THEN [kind |-> "ValueError", value |-> cell]
       ELSE IF cell = "object" THEN [kind |-> "TypeError", value |-> cell]
       ELSE [kind |-> "value", value |-> cell]
  ELSE IF dtype \in {"long", "int"}
  THEN IF cell = "null" THEN [kind |-> "None", value |-> cell]
       ELSE IF cell = "text" THEN [kind |-> "ValueError", value |-> cell]
       ELSE IF cell = "object" THEN [kind |-> "TypeError", value |-> cell]
       ELSE [kind |-> "value", value |-> cell]
  ELSE [kind |-> "value", value |-> cell]

\* not a dataset entry: parse_row returned None
NoEntry == [c \in {"None"} |-> "None"]

\* the local variable entry before its first assignment
Unbound == [c \in {"unbound"} |-> "unbound"]

\* utils.parse_row: the columns are converted in order and the first one that
\* returns or raises ends the call
parse_row(column_names, dtypes, row) ==
  LET stops == {i \in DOMAIN column_names : convert(dtypes[i], row[i]).kind # "value"}
      first == CHOOSE i \in stops : \A j \in stops : i <= j
  IN IF stops = {}
     THEN [err |-> NoExc,
           value |-> [c \in Range(column_names) |->
                        LET i == CHOOSE j \in DOMAIN column_names : column_names[j] = c
                        IN convert(dtypes[i], row[i]).value]]
     ELSE IF convert(dtypes[first], row[first]).kind = "None"
     THEN [err |-> NoExc, value |-> NoEntry]
     ELSE [err |-> Exc(convert(dtypes[first], row[first]).kind, 0), value |-> NoEntry]

\* the value of entry after the try statement: r the outcome of parse_row;
\* the except clauses only log, so a raising row leaves entry as it was
entry_after(entry, r) ==
  IF r.err.raised /\ r.err.exc \in {"TypeError", "ValueError"} THEN entry ELSE r.value

\* results[entry["datasetID"]] = entry
store_entry(results, entry) ==
  [k \in DOMAIN results \cup {entry["datasetID"]} |->
     IF k = entry["datasetID"] THEN entry ELSE results[k]]

\* the call on a list of rows, before its loop
Parsing(rows) ==
  [pc |-> "loop", rows |-> rows, i |-> 1, entry |-> Unbound, results |-> <<>>,
   err |-> NoExc]

\* one iteration of the loop, entry being the variable after the try
\* statement: "if entry is not None" reads it, bound or not
loop_body(p, entry) ==
  IF entry = Unbound
  THEN [p EXCEPT !.pc = "raised", !.err = Exc("UnboundLocalError", 0)]
  ELSE [p EXCEPT !.i = p.i + 1, !.entry = entry,
                 !.results = IF entry # NoEntry THEN store_entry(p.results, entry)
                             ELSE p.results]

InitParse ==
  /\ cache_period = DefaultPeriod
  /\ origin = "up"
  /\ now = 0
  /\ fs = [p \in {cache_file("u1")} |-> NoFile]
  /\ ncalls = 0
  /\ noutside = 0
  /\ last = NoCall
  /\ dir = "full"
  /\ maint = NoMaint
  /\ cat = NoLoad
  /\ procs = NoProcs
  /\ parser \in {Parsing(rows) : rows \in RowLists}

\* for row in data["table"]["rows"]: one row
ParseRow ==
  /\ parser.pc = "loop"
  /\ parser.i <= Len(parser.rows)
  /\ parser' = loop_body(parser,
                         entry_after(parser.entry,
                                     parse_row(ColumnNames, ColumnTypes,
                                               parser.rows[parser.i])))
  /\ UNCHANGED <<cache_period, origin, now, fs, ncalls, noutside, last, dir, maint,
                 cat, procs>>

\* return results
ParseReturn ==
  /\ parser.pc = "loop"
  /\ parser.i > Len(parser.rows)
  /\ parser' = [parser EXCEPT !.pc = "done"]
  /\ UNCHANGED <<cache_period, origin, now, fs, ncalls, noutside, last, dir, maint,
                 cat, procs>>

NextParse == ParseRow \/ ParseReturn

SpecParse == InitParse /\ [][NextParse]_vars

----------------------------------------------------------------------------
(* Concurrent callers of one store: two reads of the same URL and a
   clear_cache, each advancing one statement at a time.  The store has no
   lock, so the statements of the calls interleave freely. *)

Readers == {"r1", "r2"}
Cleaner == "m"

\* the method each reader calls
ReaderOp == [p \in Readers |-> IF p = "r1" THEN "read_csv" ELSE "read_json"]

\* the URL all callers use, and its cache file
SharedUrl == "u1"
SharedFile == cache_file(SharedUrl)

\* what earlier calls left at the path: nothing, a fresh file, a stale file
SharedLeftovers == {NoFile, File(SeedBody, 0), File(SeedBody, -2)}

\* the max_age argument of the concurrent clear_cache
CleanerArgs == {None, <<0>>}

\* a reader before its call, and the cleaner before its call
IdleReader(p) ==
  [pc |-> "idle", op |-> ReaderOp[p], decided |-> "none", raced |-> FALSE,
   gets |-> 0, resp |-> NoResp, found |-> FALSE, saw |-> <<>>,
   err |-> NoExc, value |-> NoValue]

IdleCleaner == [pc |-> "idle", arg |-> None, removed |-> FALSE]

\* another call is between opening the file for writing and closing it
InWindow(ps, p) == \E q \in Readers \ {p} : ps[q].pc \in {"get", "write"}

check_file_locked(f, t, period, busy) ==
  IF busy THEN "wait"
  ELSE IF f.exists /\ ~is_stale(f.mtime, t, period) THEN "hit" ELSE "fetch"

\* the test at the head of read_csv and read_json: serve the file ("hit") or
\* call cache_response ("fetch"); busy, another call being in its window,
\* plays no part
check_file(f, t, period, busy) ==
  IF f.exists /\ ~is_stale(f.mtime, t, period) THEN "hit" ELSE "fetch"

on_fetch_error_retry(r) == [r EXCEPT !.pc = "open"]

\* the call after its GET or its status check raised: the exception leaves
\* the with block, which closes the file, and the call
on_fetch_error(r) == [r EXCEPT !.pc = "raised"]

\* one more GET on the count of a call, which stops counting at MaxGets
one_more(n) == IF n < MaxGets THEN n + 1 ELSE n

\* the reader after http_client.get and raise_for_status
after_get(r, resp) ==
  IF fetch_error(resp).raised
  THEN on_fetch_error([r EXCEPT !.gets = one_more(r.gets), !.resp = resp,
                                !.err = fetch_error(resp)])
  ELSE [r EXCEPT !.gets = one_more(r.gets), !.resp = resp, !.pc = "write"]

\* f.write(content) through a descriptor of its own, opened before: the
\* bytes go to the start of the file, over what another writer put there
write_own_fd(f, content, t) ==
  File(content \o SubSeq(f.content, Len(content) + 1, Len(f.content)), t)

\* the parse each method makes of the bytes of the file
parse_as(op, bytes) ==
  IF op = "read_csv" THEN pd_read_csv(bytes, "none") ELSE json_load(bytes)

open_rb_lenient(r, f) ==
  [r EXCEPT !.found = f.exists, !.saw = f.content,
            !.pc = IF parse_as(r.op, f.content).err.raised THEN "raised" ELSE "returned",
            !.err = parse_as(r.op, f.content).err,
            !.value = parse_as(r.op, f.content).value]

\* gzip.open(pth, "rb") and the parse: a missing file raises
\* FileNotFoundError
open_rb(r, f) ==
  IF ~f.exists
  THEN [r EXCEPT !.found = FALSE, !.pc = "raised",
                 !.err = Exc("FileNotFoundError", 0)]
  ELSE [r EXCEPT !.found = TRUE, !.saw = f.content,
                 !.pc = IF parse_as(r.op, f.content).err.raised THEN "raised" ELSE "returned",
                 !.err = parse_as(r.op, f.content).err,
                 !.value = parse_as(r.op, f.content).value]

InitConc ==
  /\ cache_period = CacheStore_init(<<1>>)
  /\ origin \in {"up", "down"}
  /\ now = 0
  /\ fs \in [{SharedFile} -> SharedLeftovers]
  /\ ncalls = 0
  /\ noutside = 0
  /\ last = NoCall
  /\ dir = "full"
  /\ maint = NoMaint
  /\ cat = NoLoad
  /\ procs = [p \in Readers \cup {Cleaner} |->
                IF p = Cleaner THEN IdleCleaner ELSE IdleReader(p)]
  /\ parser = NoParse

\* what a step of a concurrent caller leaves alone
held == <<cache_period, origin, now, ncalls, noutside, last, dir, maint, cat, parser>>

\* a reader calls its method
StartRead(p) ==
  /\ procs[p].pc = "idle"
  /\ procs' = [procs EXCEPT ![p].pc = "check"]
  /\ UNCHANGED <<fs, held>>

\* if pth.exists(): ... if pth.stat().st_mtime < allowed_mtime
Check(p) ==
  /\ procs[p].pc = "check"
  /\ \E d \in {check_file(fs[SharedFile], now, cache_period, InWindow(procs, p))} :
       procs' = [procs EXCEPT ![p].decided = d,
                              ![p].raced = InWindow(procs, p),
                              ![p].pc = IF d = "hit" THEN "read"
                                        ELSE IF d = "fetch" THEN "open" ELSE "check"]
  /\ UNCHANGED <<fs, held>>

\* cache_response: with gzip.open(filename, "wb") as f
Open(p) ==
  /\ procs[p].pc = "open"
  /\ fs' = gzip_open_wb(fs, SharedFile, now)
  /\ procs' = [procs EXCEPT ![p].pc = "get"]
  /\ UNCHANGED held

\* cache_response: resp = self.http_client.get(...); resp.raise_for_status()
Get(p) ==
  /\ procs[p].pc = "get"
  /\ \E resp \in Answers(origin) :
       procs' = [procs EXCEPT ![p] = after_get(procs[p], resp)]
  /\ UNCHANGED <<fs, held>>

\* cache_response: f.write(resp.content), and the file is closed
Write(p) ==
  /\ procs[p].pc = "write"
  /\ fs' = [fs EXCEPT ![SharedFile] =
              write_own_fd(fs[SharedFile], procs[p].resp.content, now)]
  /\ procs' = [procs EXCEPT ![p].pc = "read"]
  /\ UNCHANGED held

\* with gzip.open(pth, "rb") as f: return pd.read_csv(f) / json.load(f)
Read(p) ==
  /\ procs[p].pc = "read"
  /\ procs' = [procs EXCEPT ![p] = open_rb(procs[p], fs[SharedFile])]
  /\ UNCHANGED <<fs, held>>

\* the statements of a reader's call, once it has been made
ReaderStep(p) == Check(p) \/ Open(p) \/ Get(p) \/ Write(p) \/ Read(p)

\* the third caller calls clear_cache(arg)
StartClear ==
  \E arg \in CleanerArgs :
    /\ procs[Cleaner].pc = "idle"
    /\ procs' = [procs EXCEPT ![Cleaner].pc = "clearing", ![Cleaner].arg = arg]
    /\ UNCHANGED <<fs, held>>

\* clear_cache: the loop over the .gz files, and the return
Clear ==
  /\ procs[Cleaner].pc = "clearing"
  /\ fs' = clear_cache(dir, fs, procs[Cleaner].arg, now)
  /\ procs' = [procs EXCEPT ![Cleaner].pc = "returned",
                            ![Cleaner].removed = (fs[SharedFile].exists
                                                    /\ ~fs'[SharedFile].exists)]
  /\ UNCHANGED held

NextConc ==
  \/ \E p \in Readers : StartRead(p) \/ ReaderStep(p)
  \/ StartClear
  \/ Clear
  \/ Tick

SpecConc == InitConc /\ [][NextConc]_vars

\* a caller's thread is scheduled again and again, and every GET returns or
\* raises: a statement that can be executed eventually is
SpecLive ==
  /\ SpecConc
  /\ \A p \in Readers : WF_vars(ReaderStep(p))
  /\ WF_vars(Clear)

----------------------------------------------------------------------------
(* Vocabulary of the properties: all of it is about the last call *)

\* the TTL is positive
Enabled == cache_period > 0

IsRead == last.op \in {"read_csv", "read_json"}

\* the age of the URL's cache file when the call checked it
Age == last.time - last.pre.mtime

\* the parse the call's format gives of a byte string
Parse(bytes) ==
  IF last.op = "read_csv" THEN pd_read_csv(bytes, last.pandas_kwargs) ELSE json_load(bytes)

\* the origin answered the call's request with a success status
OriginOk == last.resp.get_ok /\ last.resp.status = 200

\* the call's GET raised, or the status check on its response did
OriginFailed == last.resp # NoResp /\ ~OriginOk

\* the error the origin's answer amounts to: the transport's, or the HTTP error
\* of a failing status
OriginError ==
  IF ~last.resp.get_ok THEN Exc("ConnectionError", 0)
  ELSE IF last.resp.status # 200 THEN Exc("HTTPError", last.resp.status)
  ELSE NoExc

\* the call went through fetch-and-store
Fetched == last.op = "cache_response" \/ (IsRead /\ Enabled /\ last.gets # <<>>)

----------------------------------------------------------------------------
(* Properties *)

\* C1: with caching enabled and an origin whose status check fails on every
\* request, every read_csv on the store issues one new GET and raises that
\* HTTP error, also within the TTL window of an earlier failed attempt.
C1_FailedFetchNotCached ==
  (Enabled /\ origin = "down" /\ noutside = 0 /\ last.op = "read_csv")
    => /\ Len(last.gets) = 1
       /\ last.err = Exc("HTTPError", last.resp.status)

\* C2: a fetch-and-store that fails because the GET or the status check raises
\* leaves the URL's cache file exactly as it was: same content and mtime if it
\* existed, and still no file if there was none.
C2_FailedFetchLeavesFile ==
  (Fetched /\ OriginFailed) => last.post = last.pre

\* C3: with caching enabled, a read of a URL whose file exists with age <= TTL
\* is served from the file without any GET; a refetch happens only when the
\* file is missing or its age is strictly greater than the TTL.
C3_FreshServedWithoutGet ==
  (Enabled /\ IsRead)
    => /\ (last.pre.exists /\ Age <= cache_period)
            => (last.gets = <<>> /\ last.direct = 0 /\ last.post = last.pre)
       /\ last.gets # <<>> => (~last.pre.exists \/ Age > cache_period)

C3_Witness ==
  /\ Enabled /\ IsRead
  /\ last.pre.exists /\ Age = cache_period
  /\ last.gets = <<>> /\ ~last.err.raised

\* C4 as stated: a read of a URL whose file is missing or has age >= TTL, the
\* age equal to the TTL included, calls fetch-and-store with the caller's
\* request options.
C4_RefetchAtTtl ==
  (Enabled /\ IsRead /\ (~last.pre.exists \/ Age >= cache_period))
    => last.gets = <<last.kwargs>>

\* C4 amended: a read of a URL whose file is missing or has age > TTL calls
\* fetch-and-store with the caller's request options before the file is read
\* (what it returns is the parse of the file as just written); at an age
\* equal to the TTL there is no fetch.
C4_RefetchPastTtl ==
  (Enabled /\ IsRead)
    => /\ (~last.pre.exists \/ Age > cache_period)
            => /\ last.gets = <<last.kwargs>>
               /\ last.post.mtime = last.time
               /\ ~last.err.raised => last.value = Parse(last.post.content).value
       /\ (last.pre.exists /\ Age = cache_period) => last.gets = <<>>

C4_Witness ==
  /\ Enabled /\ IsRead
  /\ last.pre.exists /\ Age > cache_period
  /\ last.kwargs = "timeout" /\ last.gets = <<"timeout">>
  /\ ~last.err.raised /\ last.value = Parse(last.resp.content).value

\* C5: with a TTL of zero or less, read_csv and read_json leave the cache
\* directory as it is and answer from the origin, never from a file that is
\* there for the URL.
C5_DisabledLeavesDirectory ==
  (~Enabled /\ IsRead)
    => /\ last.post = last.pre
       /\ last.resp # NoResp
       /\ ~last.err.raised => last.value = Parse(last.resp.content).value

C5_Witness ==
  /\ ~Enabled /\ IsRead
  /\ last.pre.exists /\ last.pre.content # last.resp.content
  /\ fs[cache_file(last.url)] = last.pre
  /\ ~last.err.raised

\* C6 as stated: with a TTL of zero or less, each read_csv and each read_json
\* makes exactly one GET through the store's HTTP capability with the caller's
\* request options, checks the status and returns the parse of the body.
C6_DisabledOneClientGet ==
  (~Enabled /\ IsRead)
    => /\ last.gets = <<last.kwargs>>
       /\ last.err = OriginError
       /\ OriginOk => last.value = Parse(last.resp.content).value

\* C6 amended: with a TTL of zero or less, read_json makes exactly one GET
\* through the store's HTTP capability with the caller's request options,
\* checks the status and returns the parse of the body; read_csv makes no GET
\* through that capability and uses no request options: it hands the URL to
\* pandas.read_csv, which retrieves it once, and returns that parse.
C6_DisabledOneRetrieval ==
  (~Enabled /\ IsRead)
    => /\ last.op = "read_json" => (last.gets = <<last.kwargs>> /\ last.direct = 0)
       /\ last.op = "read_csv" => (last.gets = <<>> /\ last.direct = 1)
       /\ last.err = OriginError
       /\ OriginOk => last.value = Parse(last.resp.content).value

C6_Witness ==
  /\ ~Enabled /\ last.op = "read_json"
  /\ last.kwargs = "timeout" /\ last.gets = <<"timeout">>
  /\ last.resp.status = 404 /\ last.err = Exc("HTTPError", 404)

\* C7: with caching enabled and no cache file for the URL, a read that the
\* origin answers successfully makes exactly one GET, creates the file with
\* the response body as content, and returns the parse of that body.
C7_ColdFetch ==
  (Enabled /\ IsRead /\ ~last.pre.exists /\ OriginOk)
    => /\ Len(last.gets) = 1 /\ last.direct = 0
       /\ last.post = File(last.resp.content, last.time)
       /\ last.err = NoExc
       /\ last.value = Parse(last.resp.content).value

C7_Witness ==
  /\ Enabled /\ last.op = "read_csv" /\ ~last.pre.exists
  /\ Len(last.gets) = 1 /\ ~last.err.raised
  /\ last.post.exists /\ last.post.content \in Bodies
  /\ last.value.fmt = "csv"

\* C8: a read made while the file's age is within the TTL makes no GET and
\* its result is the parse of what the file on disk holds at that moment,
\* whatever the origin would answer and whoever wrote the file.
C8_WarmHit ==
  (Enabled /\ IsRead /\ last.pre.exists /\ Age <= cache_period)
    => /\ last.resp = NoResp
       /\ last.err = Parse(last.pre.content).err
       /\ last.value = Parse(last.pre.content).value

C8_Witness ==
  /\ Enabled /\ IsRead /\ ncalls >= 2
  /\ last.pre = File(SeedBody, last.time)
  /\ last.resp = NoResp
  /\ last.value = Parse(SeedBody).value /\ last.value.fmt # "none"

\* C9: when the file's age exceeds the TTL and the origin answers
\* successfully, the read makes exactly one GET, the file's content becomes
\* the new body, its mtime the time of the fetch, and the parse of the new
\* body is returned.
C9_StaleRefetch ==
  (Enabled /\ IsRead /\ last.pre.exists /\ Age > cache_period /\ OriginOk)
    => /\ Len(last.gets) = 1 /\ last.direct = 0
       /\ last.post = File(last.resp.content, last.time)
       /\ last.err = NoExc
       /\ last.value = Parse(last.resp.content).value

C9_Witness ==
  /\ Enabled /\ IsRead /\ last.pre.exists /\ Age > cache_period
  /\ last.pre.content # <<>> /\ last.pre.content # last.resp.content
  /\ last.post = File(last.resp.content, last.time)
  /\ last.post.mtime > last.pre.mtime
  /\ last.value = Parse(last.resp.content).value /\ last.value.fmt # "none"

\* C10: when the refetch of a stale entry that is present fails, the read
\* raises the origin's error and returns nothing; and no read makes more than
\* one request, whether it succeeds or fails.
C10_NoFallbackNoRetry ==
  IsRead
    => /\ (Enabled /\ last.pre.exists /\ Age > cache_period /\ OriginFailed)
            => (last.err = OriginError /\ last.err.raised
                /\ last.value = NoValue)
       /\ Len(last.gets) + last.direct <= 1

C10_Witness ==
  /\ Enabled /\ IsRead /\ last.pre.exists /\ Age > cache_period
  /\ last.pre.content \in Bodies
  /\ last.resp.status = 404 /\ last.err = Exc("HTTPError", 404)
  /\ Len(last.gets) = 1

\* C13: a read that returns normally returns the parse of a complete body
\* that the origin delivered with a success status, or of content put in the
\* file from outside; never data that comes from a failed fetch, such as
\* empty data.
C13_ReturnsOnlyCompleteBodies ==
  (IsRead /\ ~last.err.raised)
    => /\ \E b \in Bodies \cup {SeedBody} : last.value = Parse(b).value
       /\ last.resp # NoResp
            => (OriginOk /\ last.value = Parse(last.resp.content).value)

\* C19: while only the store writes the cache directory, each cache file that
\* exists holds the complete body of the latest GET for its URL that passed
\* the status check, dated at that fetch; a failed fetch creates no file and
\* refreshes no mtime.
C19_FileIsLastGoodBody ==
  noutside = 0
    => \A p \in DOMAIN fs :
         /\ fs[p].exists => (fs[p].content \in Bodies /\ fs[p].mtime <= now)
         /\ (last.op # "none" /\ p = cache_file(last.url))
              => fs[p] = (IF Fetched /\ OriginOk
                          THEN File(last.resp.content, last.time)
                          ELSE last.pre)

\* C20: cache_response makes exactly one GET whether or not a fresh file is
\* there and whatever the TTL, and on success the file's content is the new
\* body alone: the old content is replaced, not appended to.
C20_CacheResponseOverwrites ==
  last.op = "cache_response"
    => /\ last.gets = <<last.kwargs>> /\ last.direct = 0
       /\ OriginOk => (last.err = NoExc /\ last.post = File(last.resp.content, last.time))
       /\ ~OriginOk => last.err = OriginError

C20_Witness ==
  /\ last.op = "cache_response" /\ Enabled
  /\ last.pre.exists /\ last.pre.content # <<>> /\ Age <= cache_period
  /\ Len(last.gets) = 1 /\ OriginOk
  /\ last.pre.content # last.resp.content
  /\ last.post.content = last.resp.content

\* C21: no read_csv, read_json or cache_response call, successful or failed,
\* deletes a cache file: a file that exists before a step of the store's
\* reading and fetching calls exists after it, so a stale entry stays on disk
\* until a refetch overwrites it.
C21_CallsNeverDelete ==
  [][\A p \in DOMAIN fs : fs[p].exists => fs'[p].exists]_vars

C21_Witness ==
  /\ Enabled /\ last.op # "none"
  /\ last.pre.exists /\ last.pre.content # <<>> /\ Age > cache_period
  /\ OriginFailed /\ last.err.raised
  /\ last.post.exists

\* C27: a read served from a fresh file leaves the directory as it is, mtime
\* included, so the TTL runs from the last fetch and not from the last
\* access: a read of a file whose mtime is more than TTL back makes its GET
\* however often the file was read in between.
C27_TtlFromLastFetch ==
  [][(ncalls' # ncalls /\ last'.op \in {"read_csv", "read_json"} /\ Enabled)
       => LET f == fs[cache_file(last'.url)]
          IN IF f.exists /\ now - f.mtime <= cache_period
             THEN fs' = fs /\ last'.gets = <<>>
             ELSE Len(last'.gets) = 1]_vars

C27_Witness ==
  /\ Enabled /\ IsRead /\ ncalls >= 2
  /\ last.pre.exists /\ Age >= 1 /\ Age <= cache_period
  /\ last.gets = <<>>
  /\ last.post.mtime = last.pre.mtime /\ last.post.mtime < last.time

\* C26: a read_csv, read_json or cache_response call for a URL changes at
\* most the cache file of that URL: the file of every other URL is the same
\* after the call as before, whether the call succeeds or fails.
C26_OtherFilesUntouched ==
  [][ncalls' # ncalls
       => \A p \in DOMAIN fs : p # cache_file(last'.url) => fs'[p] = fs[p]]_vars

C26_Witness ==
  /\ last.op # "none" /\ last.url = "u2"
  /\ last.post # last.pre
  /\ fs[cache_file("u1")].exists /\ fs[cache_file("u1")].content \in Bodies
  /\ fs[cache_file("u1")] # fs[cache_file("u2")]

----------------------------------------------------------------------------
(* Properties of construction and maintenance: about the last such call *)

\* the age of a file of the directory when the call looked at it
AgeAt(p) == maint.time - maint.pre[p].mtime

IsGz(p) == p.suffix = ".gz"

\* C11: clear_cache() without an age removes every file of the cache
\* directory whose name ends in .gz, whatever its age, and leaves every other
\* file as it was.
C11_ClearAll ==
  (maint.op = "clear_cache" /\ maint.arg = None /\ maint.pre_dir = "full")
    => \A p \in DOMAIN maint.pre :
         /\ IsGz(p) => ~maint.post[p].exists
         /\ ~IsGz(p) => maint.post[p] = maint.pre[p]

C11_Witness ==
  /\ maint.op = "clear_cache" /\ maint.arg = None /\ maint.pre_dir = "full"
  /\ \E p \in DOMAIN maint.pre :
       IsGz(p) /\ maint.pre[p].exists /\ AgeAt(p) = 0 /\ ~maint.post[p].exists
  /\ \E p \in DOMAIN maint.pre :
       IsGz(p) /\ maint.pre[p].exists /\ AgeAt(p) > 0 /\ ~maint.post[p].exists
  /\ \E p \in DOMAIN maint.pre :
       ~IsGz(p) /\ maint.pre[p].exists /\ maint.post[p] = maint.pre[p]

\* C12: clear_cache(max_age) deletes exactly the .gz files whose age is
\* greater than or equal to max_age, one of age max_age included, and leaves
\* every younger file with its content and mtime.
C12_ClearOlderThan ==
  (maint.op = "clear_cache" /\ maint.arg # None /\ maint.pre_dir = "full")
    => \A p \in DOMAIN maint.pre :
         IF IsGz(p) /\ maint.pre[p].exists /\ AgeAt(p) >= maint.arg[1]
         THEN ~maint.post[p].exists
         ELSE maint.post[p] = maint.pre[p]

C12_Witness ==
  /\ maint.op = "clear_cache" /\ maint.arg # None /\ maint.pre_dir = "full"
  /\ maint.arg[1] > 0
  /\ \E p \in DOMAIN maint.pre :
       IsGz(p) /\ maint.pre[p].exists /\ AgeAt(p) = maint.arg[1]
         /\ ~maint.post[p].exists
  /\ \E p \in DOMAIN maint.pre :
       IsGz(p) /\ maint.pre[p].exists /\ AgeAt(p) < maint.arg[1]
         /\ maint.post[p] = maint.pre[p]

\* C14: constructing a store on a cache directory that does not exist creates
\* it with its missing parents; constructing one on a directory that exists
\* succeeds and leaves the files in it as they were.
C14_ConstructMakesDirectory ==
  maint.op = "init"
    => /\ maint.post_dir = "full"
       /\ maint.err = NoExc
       /\ maint.post = maint.pre

C14_Witness ==
  /\ maint.op = "init" /\ maint.pre_dir = "none"
  /\ maint.post_dir = "full" /\ dir = "full"

\* C15: cache_file maps each URL to one path, different URLs to different
\* paths; the path's parent is the cache directory and its name the hash of
\* the URL followed by .gz; the call creates and checks no file.
C15_CacheFilePath ==
  /\ maint.op = "cache_file"
       => /\ maint.path.parent = "cache_dir"
          /\ maint.path.name = hash_url(maint.url)
          /\ maint.path.suffix = ".gz"
          /\ maint.post = maint.pre /\ maint.post_dir = maint.pre_dir
          /\ \A u \in URLs : u # maint.url => cache_file(u) # maint.path
  /\ \A u, v \in URLs : u # v => hash_url(u) # hash_url(v)

C15_Witness ==
  /\ maint.op = "cache_file" /\ maint.url = "u2"
  /\ ~maint.pre[maint.path].exists /\ ~fs[maint.path].exists
  /\ maint.path # cache_file("u1")

\* C16: clear_cache, with or without an age, changes nothing and raises
\* nothing when the cache directory does not exist at the call; it does not
\* create the directory again.
C16_ClearWithoutDirectory ==
  (maint.op = "clear_cache" /\ maint.pre_dir # "full")
    => /\ maint.post_dir = maint.pre_dir
       /\ maint.post = maint.pre
       /\ maint.err = NoExc

C16_Witness ==
  /\ maint.op = "clear_cache" /\ maint.pre_dir = "none" /\ maint.arg # None
  /\ maint.post_dir = "none" /\ dir = "none"

\* the call was clear_cache(TTL) with the TTL of the store, caching enabled
ClearedAtTtl ==
  /\ maint.op = "clear_cache" /\ maint.pre_dir = "full"
  /\ Enabled /\ maint.arg = <<cache_period>>

\* C28 as stated: clear_cache called with the store's own TTL deletes exactly
\* the cache files that a read at that instant would refetch (age > TTL), and
\* none that a read would still serve without a GET.
C28_ClearAgreesWithRead ==
  ClearedAtTtl
    => \A p \in DOMAIN maint.pre :
         (IsGz(p) /\ maint.pre[p].exists)
           => (~maint.post[p].exists <=> AgeAt(p) > cache_period)

\* C28 amended: clear_cache(TTL) and the read-time check agree on every file
\* except one of age exactly TTL: files a read would refetch (age > TTL) are
\* deleted, files younger than TTL are kept as they are, and a file of age
\* TTL, which a read would still serve, is deleted.
C28_ClearAgreesExceptAtTtl ==
  ClearedAtTtl
    => \A p \in DOMAIN maint.pre :
         (IsGz(p) /\ maint.pre[p].exists)
           => /\ AgeAt(p) > cache_period => ~maint.post[p].exists
              /\ AgeAt(p) < cache_period => maint.post[p] = maint.pre[p]
              /\ AgeAt(p) = cache_period
                   => (~maint.post[p].exists
                         /\ ~is_stale(maint.pre[p].mtime, maint.time, cache_period))

C28_Witness ==
  /\ ClearedAtTtl
  /\ \E p \in DOMAIN maint.pre :
       IsGz(p) /\ maint.pre[p].exists /\ AgeAt(p) = cache_period
         /\ ~maint.post[p].exists
  /\ \E p \in DOMAIN maint.pre :
       IsGz(p) /\ maint.pre[p].exists /\ AgeAt(p) < cache_period
         /\ maint.post[p] = maint.pre[p]

----------------------------------------------------------------------------
(* Properties of the catalog, checked in SpecCat: all about the last load *)

Loaded == cat.op = "load"

\* the status the server gives the i-th search URL of the catalog
SearchStatus(i) == cat.server[cat.urls[i]].status

\* the dataset IDs in the server's result for the i-th search URL
SearchIds(i) ==
  IF SearchStatus(i) = 200 THEN Range(Tail(SearchBody(cat.urls[i]))) ELSE {}

\* the searches the server fails with a status other than 404
Failing == {i \in DOMAIN cat.urls : SearchStatus(i) \notin {200, 404}}

\* C17: on every load, the first as well as a later one within the cache
\* period of a failed attempt, a search the server answers with 404
\* contributes an empty result in place of an exception, and a search failing
\* with another status has its HTTP error reach the caller.
C17_NotFoundIsEmpty ==
  Loaded
    => IF Failing = {}
       THEN /\ ~(cat.err.raised /\ cat.err.exc \in {"HTTPError", "EmptyDataError"})
            /\ Len(cat.frames) = Len(cat.urls)
            /\ \A i \in DOMAIN cat.urls : Range(cat.frames[i].rows) = SearchIds(i)
       ELSE \E i \in Failing :
              /\ \A j \in Failing : i <= j
              /\ cat.err = Exc("HTTPError", SearchStatus(i))

\* C18: "intersection" gives the dataset IDs found in the result of every
\* search URL, "union" those found in at least one, each once, and any other
\* query_type raises ValueError. Stated for loads in which every search is
\* answered by the server, with a result or with 404.
C18_QueryTypes ==
  (Loaded /\ cat.requested = cat.urls /\ Failing = {})
    => IF cat.query_type = "union"
       THEN /\ ~cat.err.raised
            /\ Range(cat.result.rows) = UNION {SearchIds(i) : i \in DOMAIN cat.urls}
            /\ Len(cat.result.rows) = Cardinality(Range(cat.result.rows))
       ELSE IF cat.query_type = "intersection"
       THEN /\ ~cat.err.raised
            /\ Range(cat.result.rows)
                 = {id \in SearchIds(1) : \A i \in DOMAIN cat.urls : id \in SearchIds(i)}
       ELSE cat.err = Exc("ValueError", 0)

\* C22: constructing a catalog reader deletes no cache file that is fresh
\* under the store's effective period P (the cache_period argument, or 500
\* when it is None): the files of age at least P are removed and the younger
\* ones are as they were.
C22_InitKeepsFreshFiles ==
  (cat.op = "init" /\ cat.pre # <<>>)
    => LET P == IF cat.arg = None THEN DefaultPeriod ELSE cat.arg[1]
       IN \A p \in DOMAIN cat.pre :
            cat.pre[p].exists
              => IF cat.time - cat.pre[p].mtime >= P
                 THEN ~fs[p].exists
                 ELSE fs[p] = cat.pre[p]

----------------------------------------------------------------------------
(* Properties of parse_erddap_tabledap_response, checked in SpecParse *)

\* the row parses validly: a number in the integer column, a number or null
\* in the floating-point column
ValidRow(row) == row[2] = "1" /\ row[3] \in {"1", "null"}

\* the entry of a valid row
EntryOf(row) ==
  [c \in {"datasetID", "silverhand", "alt"} |->
     IF c = "datasetID" THEN row[1]
     ELSE IF c = "silverhand" THEN row[2]
     ELSE IF row[3] = "null" THEN "nan" ELSE row[3]]

\* C29: for every list of rows, in any order, the call returns the mapping of
\* exactly the rows that parse validly, by datasetID; a row with a null
\* integer or one whose conversion raises ValueError or TypeError is skipped
\* without raising, also when it is the first row.
C29_SkipsUnparsableRows ==
  parser.pc \in {"done", "raised"}
    => /\ parser.pc = "done"
       /\ DOMAIN parser.results
            = {parser.rows[i][1] : i \in {j \in DOMAIN parser.rows : ValidRow(parser.rows[j])}}
       /\ \A k \in DOMAIN parser.results :
            \E i \in DOMAIN parser.rows :
              /\ ValidRow(parser.rows[i]) /\ parser.rows[i][1] = k
              /\ parser.results[k] = EntryOf(parser.rows[i])
              /\ \A j \in DOMAIN parser.rows :
                   (j > i /\ ValidRow(parser.rows[j])) => parser.rows[j][1] # k

----------------------------------------------------------------------------
(* Properties of concurrent callers, checked in SpecConc and SpecLive *)

\* the call of p has returned or raised
Over(p) == procs[p].pc \in {"returned", "raised"}

\* the complete bodies a cache file can hold
CompleteBodies == Bodies \cup {SeedBody}

\* C23: the store does not keep two concurrent reads of one stale or missing
\* URL from both fetching: no check waits for another call, and every call
\* whose check found the file stale or missing opens the file for writing and
\* issues a GET of its own, so that two GETs go out for the one URL.
C23_NoSingleFetchGuarantee ==
  \A p \in Readers :
    /\ procs[p].decided \in {"none", "hit", "fetch"}
    /\ procs[p].pc \notin {"idle", "check"} => procs[p].decided \in {"hit", "fetch"}
    /\ (procs[p].decided = "fetch" /\ procs[p].pc \notin {"open", "get"})
         => procs[p].gets = 1
    /\ procs[p].decided # "fetch" => procs[p].gets = 0

C23_Witness ==
  /\ \A p \in Readers :
       procs[p].decided = "fetch" /\ procs[p].pc = "write" /\ procs[p].gets = 1
  /\ \E p \in Readers : procs[p].raced
  /\ fs[SharedFile] = File(<<>>, now)

\* C24: a reader whose freshness check falls between another call's opening
\* of the file for writing and the end of its write never parses an empty or
\* partial file judged fresh: it refetches, or what it parses is the complete
\* old or the complete new content.
C24_NoReadInWriteWindow ==
  \A p \in Readers :
    (procs[Cleaner].pc = "idle" /\ Over(p) /\ procs[p].raced /\ procs[p].decided = "hit")
      => (procs[p].found /\ procs[p].saw \in CompleteBodies)

\* C25 as stated: a read that found its file present and fresh completes by
\* returning the parse of the file, whatever a concurrent clear_cache does
\* between the check and the opening; it never fails for a missing file.
C25_ClearNeverFailsRead ==
  \A p \in Readers :
    (Over(p) /\ procs[p].decided = "hit")
      => (procs[p].found /\ procs[p].err.exc # "FileNotFoundError")

\* C25 amended: a read that found its file present and fresh completes with
\* the parse of the file it opens, unless a clear_cache removed the file
\* between the check and the opening: then the read raises FileNotFoundError.
C25_ClearCanFailRead ==
  \A p \in Readers :
    (Over(p) /\ procs[p].decided = "hit")
      => IF procs[p].found
         THEN /\ procs[p].err = parse_as(procs[p].op, procs[p].saw).err
              /\ procs[p].value = parse_as(procs[p].op, procs[p].saw).value
         ELSE /\ procs[p].err = Exc("FileNotFoundError", 0)
              /\ procs[Cleaner].removed

C25_Witness ==
  \E p \in Readers :
    /\ Over(p) /\ procs[p].decided = "hit" /\ ~procs[p].found
    /\ procs[p].err = Exc("FileNotFoundError", 0)
    /\ procs[Cleaner].pc = "returned" /\ procs[Cleaner].removed

\* C30: provided every GET returns or raises, every call that has been made
\* returns or raises: there is no retry loop and no wait, and a
\* fetch-and-store that has begun runs to its end or raises.
C30_CallsTerminate ==
  \A p \in Readers \cup {Cleaner} : (procs[p].pc # "idle") ~> Over(p)

C30_Witness ==
  /\ \A p \in Readers \cup {Cleaner} : Over(p)
  /\ \E p \in Readers : procs[p].pc = "raised" /\ procs[p].gets = 1
  /\ \E p \in Readers : procs[p].pc = "returned" /\ procs[p].gets = 1

====
